---- MODULE Spec2Model ----
(***************************************************************************)
(* Model of seek_localize/coordsystem.py: conversion of electrode          *)
(* coordinates between units (voxel 'mri' / 'mm') and coordinate frames    *)
(* ('mri', 'tkras', 'mni').                                                *)
(*                                                                         *)
(* Numbers are exact rationals <<n, d>> (d > 0, lowest terms), so that an  *)
(* affine, its inverse and numpy's rounding are computed, not assumed.     *)
(***************************************************************************)
EXTENDS Integers, Sequences, FiniteSets, TLC

VARIABLES env, sensors, call, prev, ncalls

vars == <<env, sensors, call, prev, ncalls>>

(***************************************************************************)
(* Bounds of the model.                                                    *)
(***************************************************************************)
\* number of conversion calls made in one run
MaxCalls == 2

(***************************************************************************)
(* Rational arithmetic (the float64 arithmetic of numpy, made exact).      *)
(***************************************************************************)
Abs(n) == IF n < 0 THEN -n ELSE n

RECURSIVE Gcd(_, _)
Gcd(a, b) == IF b = 0 THEN a ELSE Gcd(b, a % b)

\* the rational n/d in lowest terms with a positive denominator
Rat(n, d) ==
    LET s == IF d < 0 THEN -1 ELSE 1
        g == Gcd(Abs(n), Abs(d))
    IN  <<(s * n) \div g, (s * d) \div g>>

RInt(n) == <<n, 1>>
RAdd(a, b) == Rat(a[1] * b[2] + b[1] * a[2], a[2] * b[2])
RSub(a, b) == Rat(a[1] * b[2] - b[1] * a[2], a[2] * b[2])
RMul(a, b) == Rat(a[1] * b[1], a[2] * b[2])
RDiv(a, b) == Rat(a[1] * b[2], a[2] * b[1])
RNeg(a) == <<-a[1], a[2]>>
RIsInt(a) == a[2] = 1

\* numpy.round on one value: round half to even, then astype(int)
NpRound(a) ==
    LET fl == a[1] \div a[2]
        r2 == 2 * (a[1] - fl * a[2])
    IN  IF r2 < a[2] THEN RInt(fl)
        ELSE IF r2 > a[2] THEN RInt(fl + 1)
        ELSE IF fl % 2 = 0 THEN RInt(fl) ELSE RInt(fl + 1)

(***************************************************************************)
(* 4x4 affines and point sets.                                             *)
(***************************************************************************)
\* a 4x4 matrix of rationals from integer entries over a common denominator
Mat(M, d) == [i \in 1..4 |-> [j \in 1..4 |-> Rat(M[i][j], d)]]

\* an ordered point set from integer triples
Pts(P) == [k \in DOMAIN P |-> [j \in 1..3 |-> RInt(P[k][j])]]

\* nibabel.affines.apply_affine: pts @ aff[:3,:3].T + aff[:3,3], per point
ApplyOne(aff, p) ==
    [i \in 1..3 |->
        RAdd(RAdd(RAdd(RMul(aff[i][1], p[1]), RMul(aff[i][2], p[2])),
                  RMul(aff[i][3], p[3])),
             aff[i][4])]

apply_affine(aff, pts) == [k \in DOMAIN pts |-> ApplyOne(aff, pts[k])]

\* determinant of the 2x2 minor of the linear part without row r, column c
Minor(A, r, c) ==
    LET rows == IF r = 1 THEN <<2, 3>> ELSE IF r = 2 THEN <<1, 3>> ELSE <<1, 2>>
        cols == IF c = 1 THEN <<2, 3>> ELSE IF c = 2 THEN <<1, 3>> ELSE <<1, 2>>
    IN  RSub(RMul(A[rows[1]][cols[1]], A[rows[2]][cols[2]]),
             RMul(A[rows[1]][cols[2]], A[rows[2]][cols[1]]))

Sign(r, c) == IF (r + c) % 2 = 0 THEN RInt(1) ELSE RInt(-1)

Det3(A) ==
    RAdd(RAdd(RMul(A[1][1], Minor(A, 1, 1)),
              RNeg(RMul(A[1][2], Minor(A, 1, 2)))),
         RMul(A[1][3], Minor(A, 1, 3)))

\* the inverse left out: the matrix comes back as it went in
linalg_inv_forgotten(A) == A

\* numpy.linalg.inv of an affine (last row 0 0 0 1): adjugate over the
\* determinant for the linear part, and -L^-1 t for the translation
linalg_inv(A) ==
    LET det == Det3(A)
        L == [i \in 1..3 |-> [j \in 1..3 |->
                RDiv(RMul(Sign(i, j), Minor(A, j, i)), det)]]
        t == [i \in 1..3 |->
                RNeg(RAdd(RAdd(RMul(L[i][1], A[1][4]), RMul(L[i][2], A[2][4])),
                          RMul(L[i][3], A[3][4])))]
    IN  [i \in 1..4 |->
            IF i = 4 THEN <<RInt(0), RInt(0), RInt(0), RInt(1)>>
            ELSE <<L[i][1], L[i][2], L[i][3], t[i]>>]

\* numpy.round(coords).astype(int) on a point set
np_round(pts) == [k \in DOMAIN pts |-> [j \in 1..3 |-> NpRound(pts[k][j])]]

(***************************************************************************)
(* Python values.                                                          *)
(***************************************************************************)
\* Python's None, for Sensors.intended_for and for an unresolved subject
None == "None"

NoErr == [kind |-> "none", at |-> "none"]

NoSensors ==
    [ch_names |-> <<>>, coords |-> <<>>, coord_unit |-> "none",
     intended_for |-> None]

\* `raise Kind(...)` at the named statement
Raise(kind, at) ==
    [status |-> "raised", err |-> [kind |-> kind, at |-> at],
     out |-> NoSensors, inp_after |-> NoSensors, same |-> FALSE, steps |-> <<>>]

(***************************************************************************)
(* Configuration and collaborators.                                        *)
(***************************************************************************)
\* seek_localize.config.MAPPING_COORD_FRAMES, as the docstring lists it
MAPPING_COORD_FRAMES == {"mri", "tkras", "mni"}

\* the unit list with metres let through
UnitTargetsWithMeters == {"mri", "mm", "m"}

\* the literal list of convert_coord_units: ['mri', 'mm']
UNIT_TARGETS == {"mri", "mm"}

\* seek_localize.utils._scale_coordinates(coords, coord_unit, to_unit): a
\* pure linear scale factor between physical units
_scale_coordinates(coords, coord_unit, to_unit) ==
    LET f == IF coord_unit = "cm" /\ to_unit = "mm" THEN RInt(10) ELSE RInt(1)
    IN  [k \in DOMAIN coords |-> [j \in 1..3 |-> RMul(f, coords[k][j])]]

\* mne_bids.get_entities_from_fname(img_fpath).get("subject")
SubjectOf(img_fpath) == IF img_fpath = "sub-test_T1w.nii" THEN "test" ELSE None

\* the hard-coded vox2ras_tkr used when the header has no get_vox2ras_tkr
FallbackTkr ==
    Mat(<< <<-1, 0, 0, 128>>, <<0, 0, 1, -128>>, <<0, -1, 0, 128>>,
           <<0, 0, 0, 1>> >>, 1)

(***************************************************************************)
(* _handle_tkras_trans: FreeSurfer MRI <-> TKRAS.                          *)
(***************************************************************************)
\* try: img.header.get_vox2ras_tkr()  except AttributeError: the fallback
Vox2RasTkr(img) == IF img.has_tkr THEN img.vox2ras_tkr ELSE FallbackTkr

\* the direction flag ignored: the forward matrix both ways
TkrasAffineForwardOnly(vox2ras_tkr, revert_tkras) == vox2ras_tkr

\* if revert_tkras: np.linalg.inv(vox2ras_tkr), else vox2ras_tkr
TkrasAffine(vox2ras_tkr, revert_tkras) ==
    IF revert_tkras THEN linalg_inv(vox2ras_tkr) ELSE vox2ras_tkr

_handle_tkras_trans(elec_coords, img, revert_tkras) ==
    apply_affine(TkrasAffine(Vox2RasTkr(img), revert_tkras), elec_coords)

(***************************************************************************)
(* _handle_mni_trans: FreeSurfer MRI <-> MNI.                              *)
(***************************************************************************)
\* numpy.isclose on two scalars: |a - b| <= 1e-8 + 1e-5 * |b|
IsCloseScalar(a, b) ==
    LET df == RSub(a, b)
        n == Abs(df[1])
        d == df[2]
        m == Abs(b[1])
        e == b[2]
    IN  n * e <= (d * (e + 1000 * m)) \div 100000000

\* numpy.isclose on two 4x4 arrays: the array of element-wise answers
np_isclose(A, B) ==
    [i \in 1..4 |-> [j \in 1..4 |-> IsCloseScalar(A[i][j], B[i][j])]]

\* bool(ndarray), as `not arr` asks for it: defined for one element only,
\* "The truth value of an array with more than one element is ambiguous".
\* mri_ras_t is taken as its 4x4 matrix, which is what the comparison with
\* img.affine needs; any other operand makes the same statement raise too.
ndarray_bool(arr) ==
    IF Len(arr) * Len(arr[1]) > 1 THEN "ValueError"
    ELSE IF arr[1][1] THEN "True" ELSE "False"

\* which of orig.mgz, T1.mgz is read; None when neither is a file
MriPath(img) ==
    IF "orig.mgz" \in img.mri_files THEN "orig.mgz"
    ELSE IF "T1.mgz" \in img.mri_files THEN "T1.mgz"
    ELSE None

MniAffine(mri_mni_t, revert_mni) ==
    IF revert_mni THEN linalg_inv(mri_mni_t) ELSE mri_mni_t

MniFail(kind, at) == [ok |-> FALSE, err |-> [kind |-> kind, at |-> at], coords |-> <<>>]

_handle_mni_trans(elec_coords, img_fpath, img, revert_mni) ==
    LET truth == ndarray_bool(np_isclose(img.affine, img.mri_ras_t))
    IN  IF SubjectOf(img_fpath) = None THEN MniFail("RuntimeError", "subject")
        ELSE IF MriPath(img) = None THEN MniFail("IOError", "mri_not_found")
        ELSE IF truth = "ValueError" THEN MniFail("ValueError", "isclose")
        ELSE IF truth = "False" THEN MniFail("RuntimeError", "frame_mismatch")
        ELSE [ok |-> TRUE, err |-> NoErr,
              coords |-> apply_affine(MniAffine(img.mri_mni_t, revert_mni),
                                      elec_coords)]

(***************************************************************************)
(* The two conversions.                                                    *)
(***************************************************************************)
\* the mutation-in-place variant of the final step: no copy is made
RecreateInPlace(sensors_in, elec_coords, to_coord) ==
    LET upd == [sensors_in EXCEPT !.coords = elec_coords, !.coord_unit = to_coord]
    IN  [inp_after |-> upd, out |-> upd]

\* sensors = Sensors(**sensors.__dict__); set_coords; coord_unit = to_coord:
\* the copy is updated, the caller's object is not
Recreate(sensors_in, elec_coords, to_coord) ==
    [inp_after |-> sensors_in,
     out |-> [sensors_in EXCEPT !.coords = elec_coords, !.coord_unit = to_coord]]

Returned(rec, steps) ==
    [status |-> "returned", err |-> NoErr, out |-> rec.out,
     inp_after |-> rec.inp_after, same |-> FALSE, steps |-> steps]

\* `return sensors`: the caller's own object comes back
ReturnInput(sensors_in) ==
    [status |-> "returned", err |-> NoErr, out |-> sensors_in,
     inp_after |-> sensors_in, same |-> TRUE, steps |-> <<>>]

\* the short-circuit left out
NeverSame(to_coord, sensors_in) == FALSE

\* if to_coord == sensors.coord_unit
SameTarget(to_coord, sensors_in) == to_coord = sensors_in.coord_unit

RaisedAt(r, s) == [r EXCEPT !.inp_after = s]

convert_coord_space(sensors_in, to_coord, img) ==
    LET unit == sensors_in.coord_unit
        elec0 == sensors_in.coords
        \* first convert to standardized MRI coordinates
        rev == IF unit = "mni"
               THEN _handle_mni_trans(elec0, sensors_in.intended_for, img, TRUE)
               ELSE IF unit = "tkras"
               THEN [ok |-> TRUE, err |-> NoErr,
                     coords |-> _handle_tkras_trans(elec0, img, TRUE)]
               ELSE [ok |-> TRUE, err |-> NoErr, coords |-> elec0]
        revSteps == IF unit = "mni" THEN <<"inv_mni">>
                    ELSE IF unit = "tkras" THEN <<"inv_tkras">> ELSE <<>>
        \* next convert from standardized MRI coordinates to the target
        scaled == IF unit \notin {"mri", "mni"}
                  THEN _scale_coordinates(rev.coords, unit, "mm")
                  ELSE rev.coords
        fwd == IF to_coord = "mni"
               THEN _handle_mni_trans(rev.coords, sensors_in.intended_for, img, FALSE)
               ELSE IF to_coord = "tkras"
               THEN [ok |-> TRUE, err |-> NoErr,
                     coords |-> _handle_tkras_trans(scaled, img, FALSE)]
               ELSE [ok |-> TRUE, err |-> NoErr, coords |-> rev.coords]
        fwdSteps == IF to_coord = "mni" THEN <<"mni">>
                    ELSE IF to_coord = "tkras"
                    THEN (IF unit \notin {"mri", "mni"} THEN <<"scale_mm">> ELSE <<>>)
                         \o <<"tkras">>
                    ELSE <<>>
    IN  IF to_coord \notin MAPPING_COORD_FRAMES
        THEN RaisedAt(Raise("ValueError", "to_coord"), sensors_in)
        ELSE IF unit \notin MAPPING_COORD_FRAMES
        THEN RaisedAt(Raise("ValueError", "coord_unit"), sensors_in)
        ELSE IF SameTarget(to_coord, sensors_in) THEN ReturnInput(sensors_in)
        ELSE IF sensors_in.intended_for = None
        THEN RaisedAt(Raise("RuntimeError", "intended_for"), sensors_in)
        ELSE IF ~rev.ok
        THEN RaisedAt(Raise(rev.err.kind, rev.err.at), sensors_in)
        ELSE IF ~fwd.ok
        THEN [RaisedAt(Raise(fwd.err.kind, fwd.err.at), sensors_in)
                 EXCEPT !.steps = revSteps]
        ELSE Returned(Recreate(sensors_in, fwd.coords, to_coord),
                      revSteps \o fwdSteps)

convert_coord_units(sensors_in, to_coord, round, img) ==
    LET unit == sensors_in.coord_unit
        elec0 == sensors_in.coords
        affine == img.affine
        inv_affine == linalg_inv(affine)
        conv == IF to_coord = "mri"
                THEN apply_affine(inv_affine,
                                  _scale_coordinates(elec0, unit, "mm"))
                ELSE IF to_coord = "mm" THEN apply_affine(affine, elec0)
                ELSE elec0
        steps == IF to_coord = "mri" THEN <<"scale_mm", "inv_affine">>
                 ELSE <<"affine">>
        final == IF round THEN np_round(conv) ELSE conv
    IN  IF to_coord \notin UNIT_TARGETS
        THEN RaisedAt(Raise("ValueError", "to_coord"), sensors_in)
        ELSE IF SameTarget(to_coord, sensors_in) THEN ReturnInput(sensors_in)
        \* nb.load(None): the library's own error, no check precedes it
        ELSE IF sensors_in.intended_for = None
        THEN RaisedAt(Raise("TypeError", "nb.load"), sensors_in)
        ELSE Returned(Recreate(sensors_in, final, to_coord),
                      steps \o (IF round THEN <<"round">> ELSE <<>>))

(***************************************************************************)
(* Inputs: the images on disk and the sensors a reader hands over.         *)
(***************************************************************************)
\* a 1 mm conformed volume
AffConformed ==
    Mat(<< <<-1, 0, 0, 130>>, <<0, 0, 1, -120>>, <<0, -1, 0, 125>>,
           <<0, 0, 0, 1>> >>, 1)

\* 0.5 mm isotropic voxels
AffHalf ==
    Mat(<< <<1, 0, 0, 0>>, <<0, 1, 0, 2>>, <<0, 0, 1, 0>>, <<0, 0, 0, 2>> >>, 2)

\* anisotropic voxels of 2 and 3 mm, axes permuted and sheared
AffCoarse ==
    Mat(<< <<-2, 0, 1, 4>>, <<0, 0, 2, 0>>, <<0, -3, 0, 1>>, <<0, 0, 0, 1>> >>, 1)

\* the header's own vox2ras_tkr of a 128-cubed volume
HeaderTkr ==
    Mat(<< <<-1, 0, 0, 64>>, <<0, 0, 1, -64>>, <<0, -1, 0, 64>>,
           <<0, 0, 0, 1>> >>, 1)

\* the subject's talairach.xfm
TalXfm ==
    Mat(<< <<2, 0, 0, 1>>, <<0, 2, 0, 0>>, <<0, 1, 2, -4>>, <<0, 0, 0, 2>> >>, 2)

OtherAffine(A) == IF A = AffConformed THEN AffCoarse ELSE AffConformed

Img(affine, has_tkr, same_canon, files) ==
    [affine |-> affine, has_tkr |-> has_tkr, vox2ras_tkr |-> HeaderTkr,
     mri_files |-> files,
     mri_ras_t |-> IF same_canon THEN affine ELSE OtherAffine(affine),
     mri_mni_t |-> TalXfm]

\* the images and subject directories a run may meet
Envs ==
    {Img(AffConformed, FALSE, TRUE, {"orig.mgz", "T1.mgz"}),
     Img(AffConformed, TRUE, TRUE, {"orig.mgz", "T1.mgz"}),
     Img(AffHalf, TRUE, TRUE, {"orig.mgz", "T1.mgz"}),
     Img(AffCoarse, FALSE, TRUE, {"orig.mgz", "T1.mgz"}),
     Img(AffConformed, TRUE, FALSE, {"orig.mgz", "T1.mgz"}),
     Img(AffHalf, FALSE, FALSE, {"orig.mgz", "T1.mgz"}),
     Img(AffConformed, TRUE, TRUE, {"T1.mgz"}),
     Img(AffConformed, TRUE, TRUE, {})}

CoordSets ==
    {Pts(<< <<128, 128, 128>> >>), Pts(<< <<0, 0, 0>>, <<1, 2, 3>> >>)}

Names(c) == [k \in DOMAIN c |-> k]

Sensors(c, u, p) ==
    [ch_names |-> Names(c), coords |-> c, coord_unit |-> u, intended_for |-> p]

\* the sensors a reader hands over: every tag with a BIDS image path, and
\* a few without an image or with a path that names no subject
InitSensors ==
    {Sensors(c, u, "sub-test_T1w.nii") :
        c \in CoordSets, u \in {"mri", "mm", "tkras", "mni"}}
    \cup {Sensors(Pts(<< <<0, 0, 0>>, <<1, 2, 3>> >>), "cm", "sub-test_T1w.nii")}
    \cup {Sensors(Pts(<< <<128, 128, 128>> >>), u, None) : u \in {"mri", "mm"}}
    \cup {Sensors(Pts(<< <<0, 0, 0>>, <<1, 2, 3>> >>), "mni", "T1.nii")}

NoCall ==
    [fn |-> "none", to |-> "none", round |-> FALSE, inp |-> NoSensors,
     res |-> Raise("none", "none")]

SpaceTargets == MAPPING_COORD_FRAMES \cup {"foo"}

UnitTargets == {"mri", "mm", "m"}

Init ==
    /\ env \in Envs
    /\ sensors \in InitSensors
    /\ call = NoCall
    /\ prev = NoCall
    /\ ncalls = 0

\* one call; the caller carries on with the result when there is one
Record(fn, to, round, res) ==
    /\ prev' = call
    /\ call' = [fn |-> fn, to |-> to, round |-> round, inp |-> sensors, res |-> res]
    /\ sensors' = IF res.status = "returned" THEN res.out ELSE res.inp_after
    /\ ncalls' = ncalls + 1
    /\ UNCHANGED env

ConvertCoordSpace ==
    /\ ncalls < MaxCalls
    /\ \E to \in SpaceTargets :
          Record("space", to, FALSE, convert_coord_space(sensors, to, env))

ConvertCoordUnits ==
    /\ ncalls < MaxCalls
    /\ \E to \in UnitTargets, round \in BOOLEAN :
          Record("units", to, round, convert_coord_units(sensors, to, round, env))

Next == ConvertCoordSpace \/ ConvertCoordUnits

Spec == Init /\ [][Next]_vars

(***************************************************************************)
(* Vocabulary of the properties.                                           *)
(***************************************************************************)
Frames == {"mri", "tkras", "mni"}

Returns(c) == c.res.status = "returned"

Raises(c) == c.res.status = "raised"

\* the call's target differs from the tag of its input
Converts(c) == c.fn \in {"space", "units"} /\ c.to # c.inp.coord_unit

\* the call worked on what the previous call returned
Chained == Returns(prev) /\ call.inp = prev.res.out

\* everything _handle_mni_trans reads is in place and the image is the
\* subject's own volume
MniReady(s) ==
    /\ s.intended_for # None
    /\ SubjectOf(s.intended_for) # None
    /\ MriPath(env) # None

IntCoords(c) == \A k \in DOMAIN c : \A j \in 1..3 : RIsInt(c[k][j])

P128 == <<RInt(128), RInt(128), RInt(128)>>

P0 == <<RInt(0), RInt(0), RInt(0)>>

(***************************************************************************)
(* C3. An unrecognized target is refused.                                  *)
(***************************************************************************)
\* C3: convert_coord_space with a target outside mri/tkras/mni, and
\* convert_coord_units with a target outside mri/mm, raise ValueError for
\* every input, return no sensors, and leave the input as it was.
C3_RejectUnknownTarget ==
    ((call.fn = "space" /\ call.to \notin {"mri", "tkras", "mni"})
        \/ (call.fn = "units" /\ call.to \notin {"mri", "mm"}))
    => /\ Raises(call)
       /\ call.res.err.kind = "ValueError"
       /\ call.res.out = NoSensors
       /\ call.res.inp_after = call.inp
       /\ sensors = call.inp

C3_Witness ==
    /\ prev.fn = "units" /\ prev.to = "m" /\ Raises(prev)
    /\ call.fn = "space" /\ call.to = "foo" /\ Raises(call)
    /\ call.inp.coords # <<>>

(***************************************************************************)
(* C5. Converting to the current tag hands the input back.                 *)
(***************************************************************************)
\* C5: when the (recognized) target equals the input's tag, both functions
\* return the input object itself, coordinates and tag untouched, no affine
\* or rounding applied and no error, whatever the round flag and even with
\* no reference image.
C5_IdentityShortCircuit ==
    ((call.fn = "space" /\ call.to \in {"mri", "tkras", "mni"}
            /\ call.to = call.inp.coord_unit)
        \/ (call.fn = "units" /\ call.to \in {"mri", "mm"}
            /\ call.to = call.inp.coord_unit))
    => /\ Returns(call)
       /\ call.res.same
       /\ call.res.out = call.inp
       /\ call.res.inp_after = call.inp
       /\ call.res.steps = <<>>

C5_Witness ==
    /\ prev.fn = "space" /\ prev.to = "mri" /\ prev.inp.coord_unit = "mri"
    /\ prev.inp.intended_for = None /\ Returns(prev) /\ prev.res.same
    /\ call.fn = "units" /\ call.to = "mri" /\ call.round
    /\ call.inp.intended_for = None /\ Returns(call) /\ call.res.same

(***************************************************************************)
(* C7. What a successful conversion returns.                               *)
(***************************************************************************)
\* the same call on the k-th point alone
OnPoint(c, k) ==
    LET one == [c.inp EXCEPT !.coords = <<c.inp.coords[k]>>,
                             !.ch_names = <<c.inp.ch_names[k]>>]
    IN  IF c.fn = "space" THEN convert_coord_space(one, c.to, env)
        ELSE convert_coord_units(one, c.to, c.round, env)

\* C7: a successful conversion to another tag returns a new object tagged
\* with the target, with the image path, the names and the number and order
\* of points of the input, and the input is as it was before the call.
C7_OutputFrameEffect ==
    (Converts(call) /\ Returns(call))
    => /\ ~call.res.same
       /\ call.res.out.coord_unit = call.to
       /\ call.res.out.intended_for = call.inp.intended_for
       /\ call.res.out.ch_names = call.inp.ch_names
       /\ Len(call.res.out.coords) = Len(call.inp.coords)
       /\ \A k \in DOMAIN call.inp.coords :
             call.res.out.coords[k] = OnPoint(call, k).out.coords[1]
       /\ call.res.inp_after = call.inp

C7_Witness ==
    /\ prev.fn = "space" /\ Converts(prev) /\ Returns(prev)
    /\ call.fn = "units" /\ Converts(call) /\ Returns(call)
    /\ Len(call.inp.coords) = 2
    /\ call.res.out.coords # call.inp.coords

(***************************************************************************)
(* C9. The tkras fallback matrix.                                          *)
(***************************************************************************)
\* C9: with a header that has no vox2ras_tkr the conversion does not fail:
\* mri -> tkras maps (x, y, z) to (128 - x, z - 128, 128 - y), so voxel
\* (128,128,128) to (0,0,0); tkras -> mri uses the inverse of the same
\* matrix, (x, y, z) to (128 - x, 128 - z, y + 128), so (0,0,0) back to
\* (128,128,128).
C9_TkrasFallback ==
    (call.fn = "space" /\ ~env.has_tkr /\ call.inp.intended_for # None)
    => /\ (call.inp.coord_unit = "mri" /\ call.to = "tkras")
          => /\ Returns(call)
             /\ \A k \in DOMAIN call.inp.coords :
                   LET p == call.inp.coords[k]
                       q == call.res.out.coords[k]
                   IN  /\ q = <<RSub(RInt(128), p[1]), RSub(p[3], RInt(128)),
                                RSub(RInt(128), p[2])>>
                       /\ p = P128 => q = P0
       /\ (call.inp.coord_unit = "tkras" /\ call.to = "mri")
          => /\ Returns(call)
             /\ \A k \in DOMAIN call.inp.coords :
                   LET p == call.inp.coords[k]
                       q == call.res.out.coords[k]
                   IN  /\ q = <<RSub(RInt(128), p[1]), RSub(RInt(128), p[3]),
                                RAdd(p[2], RInt(128))>>
                       /\ p = P0 => q = P128

C9_Witness ==
    /\ ~env.has_tkr
    /\ prev.fn = "space" /\ prev.inp.coord_unit = "mri" /\ prev.to = "tkras"
    /\ prev.inp.coords = <<P128>> /\ Returns(prev) /\ prev.res.out.coords = <<P0>>
    /\ call.fn = "space" /\ call.inp.coord_unit = "tkras" /\ call.to = "mri"
    /\ call.inp.coords = <<P0>> /\ Returns(call) /\ call.res.out.coords = <<P128>>

(***************************************************************************)
(* C2. voxel -> mm -> voxel.                                               *)
(***************************************************************************)
\* two unit calls in a row, voxel -> mm and back, on integer voxels, both
\* with the round flag r
UnitRoundTrip(r) ==
    /\ prev.fn = "units" /\ prev.inp.coord_unit = "mri" /\ prev.to = "mm"
    /\ prev.inp.intended_for # None
    /\ IntCoords(prev.inp.coords)
    /\ call.fn = "units" /\ call.to = "mri"
    /\ prev.round = r /\ call.round = r

UnitRoundTripRecovers ==
    /\ Chained
    /\ Returns(call)
    /\ call.res.out.coords = prev.inp.coords
    /\ call.res.out.coord_unit = "mri"

\* C2 as stated: voxel -> mm -> voxel recovers integer voxel coordinates,
\* with rounding off on both calls and with rounding on on both calls.
C2_UnitRoundTrip_Stated ==
    (UnitRoundTrip(FALSE) \/ UnitRoundTrip(TRUE)) => UnitRoundTripRecovers

\* C2 amended: voxel -> mm -> voxel recovers integer voxel coordinates with
\* rounding off on both calls; with rounding on on both calls it does so
\* when the image affine takes these voxels to whole millimetres (the mm
\* coordinates are rounded too).
C2_UnitRoundTrip ==
    /\ UnitRoundTrip(FALSE) => UnitRoundTripRecovers
    /\ (UnitRoundTrip(TRUE)
            /\ \A k \in DOMAIN prev.inp.coords : \A j \in 1..3 :
                  LET a == env.affine[j]
                      p == prev.inp.coords[k]
                  IN  RIsInt(RAdd(RAdd(RMul(a[1], p[1]), RMul(a[2], p[2])),
                                  RAdd(RMul(a[3], p[3]), a[4]))))
       => UnitRoundTripRecovers

C2_Witness ==
    /\ UnitRoundTrip(TRUE)
    /\ env.affine = AffCoarse
    /\ Len(prev.inp.coords) = 2
    /\ prev.res.out.coords # prev.inp.coords
    /\ UnitRoundTripRecovers

(***************************************************************************)
(* C1, C4, C6: conversions through MNI.                                    *)
(***************************************************************************)
\* C1: for sensors tagged with a frame and any target frame f, converting
\* to f and back to the original frame succeeds and returns the original
\* coordinates, number and order of points and tag (same image and subject
\* registration for both calls).
C1_FrameRoundTrip ==
    (/\ prev.fn = "space"
     /\ prev.inp.coord_unit \in Frames /\ prev.to \in Frames
     /\ MniReady(prev.inp) /\ env.affine = env.mri_ras_t
     /\ call.fn = "space" /\ call.to = prev.inp.coord_unit)
    => /\ Chained
       /\ Returns(call)
       /\ call.res.out.coords = prev.inp.coords
       /\ call.res.out.coord_unit = prev.inp.coord_unit

\* C4: in a conversion to or from mni, an image affine that differs from
\* the subject's canonical affine raises the frame-mismatch error before any
\* affine is applied and nothing is returned; with equal affines the guard
\* does not fire and the conversion proceeds.
C4_FrameMismatchGuard ==
    (/\ call.fn = "space"
     /\ call.inp.coord_unit \in Frames /\ call.to \in Frames
     /\ Converts(call)
     /\ "mni" \in {call.inp.coord_unit, call.to}
     /\ MniReady(call.inp))
    => IF env.affine # env.mri_ras_t
       THEN /\ Raises(call)
            /\ call.res.err = [kind |-> "RuntimeError", at |-> "frame_mismatch"]
            /\ call.res.steps = <<>>
            /\ call.res.out = NoSensors
       ELSE /\ Returns(call)
            /\ call.res.out.coord_unit = call.to

\* C6: for sensors tagged mni, one call to tkras gives the coordinates of a
\* call to mri followed by a call to tkras, the inverse MNI affine being
\* applied before the forward tkras affine.
C6_ThreeFrameChain ==
    (/\ call.fn = "space"
     /\ call.inp.coord_unit = "mni" /\ call.to = "tkras"
     /\ MniReady(call.inp) /\ env.affine = env.mri_ras_t)
    => LET a == convert_coord_space(call.inp, "mri", env)
           b == convert_coord_space(a.out, "tkras", env)
       IN  /\ Returns(call)
           /\ a.status = "returned" /\ b.status = "returned"
           /\ call.res.out.coords = b.out.coords
           /\ call.res.steps = <<"inv_mni", "tkras">>

(***************************************************************************)
(* C8. Unit conversion without a reference image.                          *)
(***************************************************************************)
\* C8: convert_coord_units to another recognized unit on sensors with no
\* image path fails with the missing-reference-image error, the kind
\* convert_coord_space raises there, before any coordinate is transformed,
\* and leaves the input untouched.
C8_MissingReferenceImage ==
    (/\ call.fn = "units" /\ call.to \in {"mri", "mm"}
     /\ Converts(call)
     /\ call.inp.intended_for = None)
    => /\ Raises(call)
       /\ call.res.err.kind = convert_coord_space(
              [call.inp EXCEPT !.coord_unit = "tkras"], "mri", env).err.kind
       /\ call.res.steps = <<>>
       /\ call.res.inp_after = call.inp

(***************************************************************************)
(* C10. Scaling to millimetres before tkras.                               *)
(***************************************************************************)
\* C10: convert_coord_space to tkras on sensors tagged with a physical unit
\* (mm, cm) succeeds: the coordinates are rescaled to millimetres and then
\* passed through the forward voxel-to-tkras affine.
C10_ScaleBeforeTkras ==
    (/\ call.fn = "space" /\ call.to = "tkras"
     /\ call.inp.coord_unit \in {"mm", "cm"}
     /\ call.inp.intended_for # None)
    => /\ Returns(call)
       /\ call.res.steps = <<"scale_mm", "tkras">>
       /\ call.res.out.coord_unit = "tkras"
====
